---------------------------- MODULE Spec2Model ----------------------------
(***************************************************************************)
(* A model of scripts/setup-supabase.py: one run of main().                *)
(*                                                                         *)
(* Text is a sequence of one-character strings, so that the string         *)
(* operations of the script (strip, split, startswith, the regular         *)
(* expression search, replace, universal-newline reading) are computed     *)
(* character by character.  An optional value (Python's None or a value)   *)
(* is the empty sequence or a one-element sequence.                        *)
(***************************************************************************)
EXTENDS Naturals, Sequences, FiniteSets

VARIABLES
    pc,               \* position of main()
    trace,            \* the positions main() has executed, in order
    envState,         \* what is found at ../.env: "unread", "absent", "unreadable", "ok"
    envFile,          \* the lines of ../.env (without their terminators), once read
    env,              \* the mapping load_env() returned
    supabase_url,     \* env.get('NEXT_PUBLIC_SUPABASE_URL')
    service_role_key, \* env.get('SUPABASE_SERVICE_ROLE_KEY')
    project_ref,      \* extract_project_ref(supabase_url)
    schemaState,      \* what is found at ../supabase/schema.sql
    schemaFile,       \* the characters of supabase/schema.sql on disk, once read
    sql,              \* schema_path.read_text()
    exc,              \* str(e) of the exception travelling to the except clause
    stdout,           \* the print() calls made, in order
    stderr,           \* what was written to sys.stderr
    exit_code         \* the process exit status, once the run has ended

vars == <<pc, trace, envState, envFile, env, supabase_url, service_role_key,
          project_ref, schemaState, schemaFile, sql, exc, stdout, stderr,
          exit_code>>

----------------------------------------------------------------------------
(* Bounds of the inputs. *)

MaxRefLen == 2   \* characters of the host label of a candidate URL
MaxLines  == 2   \* lines of a candidate .env file
MaxSqlLen == 2   \* characters of a candidate schema.sql

----------------------------------------------------------------------------
(* Literals of the script. *)

HTTPS == <<"h","t","t","p","s",":","/","/">>
HOST_SUFFIX == <<".","s","u","p","a","b","a","s","e",".","c","o">>
REST_V1 == <<"/","r","e","s","t","/","v","1">>
AUTH_CALLBACK == <<"/","a","u","t","h","/","v","1","/","c","a","l","l","b","a","c","k">>
URL_KEY == <<"N","E","X","T","_","P","U","B","L","I","C","_","S","U","P","A","B","A","S","E","_","U","R","L">>
ROLE_KEY == <<"S","U","P","A","B","A","S","E","_","S","E","R","V","I","C","E","_","R","O","L","E","_","K","E","Y">>
ENV_NOT_FOUND == <<".","e","n","v"," ","f","i","l","e"," ","n","o","t"," ","f","o","u","n","d">>

\* str(e) of the OSError (PermissionError, IsADirectoryError, ...) that open()
\* raises for a file that exists and cannot be read; its text depends on the system.
OS_ERROR == <<"O","S","E","r","r","o","r">>

None == << >>
Some(v) == << v >>
\* (mutant) 'is not None' in place of truthiness: '' counts as a value.
IsNotNone(opt) == opt # None
\* Python truthiness of an optional string: neither None nor ''.
Truthy(opt) == opt # None /\ opt[1] # << >>

----------------------------------------------------------------------------
(* The str methods the script calls. *)

IsSpace(c) == c \in {" ", "\t", "\n", "\r"}

RECURSIVE lstrip(_)
lstrip(s) == IF s # << >> /\ IsSpace(Head(s)) THEN lstrip(Tail(s)) ELSE s

RECURSIVE rstrip(_)
rstrip(s) ==
    IF s # << >> /\ IsSpace(s[Len(s)]) THEN rstrip(SubSeq(s, 1, Len(s) - 1)) ELSE s

strip(s) == rstrip(lstrip(s))

\* p occurs in s at index i.
MatchAt(s, i, p) ==
    /\ i >= 1
    /\ i + Len(p) - 1 <= Len(s)
    /\ SubSeq(s, i, i + Len(p) - 1) = p

startswith(s, p) == MatchAt(s, 1, p)

\* str.find, 1-based; 0 when p does not occur.
find(s, p) ==
    IF \E i \in 1..Len(s) : MatchAt(s, i, p)
    THEN CHOOSE i \in 1..Len(s) :
            MatchAt(s, i, p) /\ \A k \in 1..(i - 1) : ~MatchAt(s, k, p)
    ELSE 0

\* (mutant) s.split(sep): split on every occurrence.
RECURSIVE split_every(_, _)
split_every(s, sep) ==
    LET i == find(s, sep)
    IN  IF i = 0 THEN << s >>
        ELSE << SubSeq(s, 1, i - 1) >> \o split_every(SubSeq(s, i + Len(sep), Len(s)), sep)

\* s.split(sep, 1)
split1(s, sep) ==
    LET i == find(s, sep)
    IN  IF i = 0 THEN << s >>
        ELSE << SubSeq(s, 1, i - 1), SubSeq(s, i + Len(sep), Len(s)) >>

\* s.replace(old, new): every non-overlapping occurrence, left to right, one pass.
RECURSIVE replace(_, _, _)
replace(s, old, new) ==
    IF s = << >> THEN << >>
    ELSE IF MatchAt(s, 1, old)
         THEN new \o replace(SubSeq(s, Len(old) + 1, Len(s)), old, new)
         ELSE << Head(s) >> \o replace(Tail(s), old, new)

\* Text-mode reading (newline=None): "\r\n" and a lone "\r" are read as "\n".
RECURSIVE universal_newlines(_)
universal_newlines(s) ==
    IF s = << >> THEN << >>
    ELSE IF Head(s) = "\r"
         THEN << "\n" >> \o universal_newlines(
                  IF Len(s) >= 2 /\ s[2] = "\n" THEN SubSeq(s, 3, Len(s)) ELSE Tail(s))
         ELSE << Head(s) >> \o universal_newlines(Tail(s))

\* (mutant) the bytes as they are, no newline translation.
read_text_binary(file) == file

\* schema_path.read_text()
read_text(file) == universal_newlines(file)

----------------------------------------------------------------------------
(* load_env *)

EmptyEnv == [k \in {} |-> << >>]

\* env[key] = value
SetItem(e, key, value) ==
    [k \in DOMAIN e \cup {key} |-> IF k = key THEN value ELSE e[k]]

\* env.get(key)
Get(e, key) == IF key \in DOMAIN e THEN Some(e[key]) ELSE None

\* One pass of the loop body over a line as the file iterator yields it.
load_line(e, raw) ==
    LET line  == strip(raw)
        parts == split1(line, << "=" >>)
    IN  IF line # << >> /\ ~startswith(line, << "#" >>) /\ Len(parts) = 2
        THEN SetItem(e, strip(parts[1]), strip(parts[2]))
        ELSE e

RECURSIVE load_lines(_, _)
load_lines(e, lines) ==
    IF lines = << >> THEN e
    ELSE load_lines(load_line(e, Head(lines) \o << "\n" >>), Tail(lines))

\* The mapping load_env() returns for a readable file with these lines.
load_env(lines) == load_lines(EmptyEnv, lines)

----------------------------------------------------------------------------
(* extract_project_ref *)

\* https://([^.]+)\.supabase\.co matches s from index i, its group ending before j.
RefMatch(s, i, j) ==
    /\ MatchAt(s, i, HTTPS)
    /\ j > i + Len(HTTPS)
    /\ \A k \in (i + Len(HTTPS))..(j - 1) : s[k] # "."
    /\ MatchAt(s, j, HOST_SUFFIX)

\* (mutant) re.match: a match at the start of s only.
extract_project_ref_match(s) ==
    IF \E j \in 1..Len(s) : RefMatch(s, 1, j)
    THEN Some(SubSeq(s, 1 + Len(HTTPS), (CHOOSE b \in 1..Len(s) : RefMatch(s, 1, b)) - 1))
    ELSE None

\* re.search: the leftmost match; its group(1), or None.
extract_project_ref(s) ==
    LET starts == {i \in 1..Len(s) : \E j \in 1..Len(s) : RefMatch(s, i, j)}
    IN  IF starts = {} THEN None
        ELSE LET i == CHOOSE a \in starts : \A b \in starts : a <= b
                 j == CHOOSE b \in 1..Len(s) : RefMatch(s, i, b)
             IN  Some(SubSeq(s, i + Len(HTTPS), j - 1))

\* f'{supabase_url.replace("/rest/v1", "")}/auth/v1/callback'
callback_url(url) == replace(url, REST_V1, << >>) \o AUTH_CALLBACK

----------------------------------------------------------------------------
(* What print() writes.  An item is one print() call: the emoji its message *)
(* starts with (by name, "" if it starts with none), the rest of the         *)
(* literal, and the values interpolated into it.                             *)

Item(icon, text, args) == [icon |-> icon, text |-> text, args |-> args]

BANNER      == Item("rocket", " Supabase Database Setup\n", << >>)
ERR_NO_URL  == Item("cross_mark", " NEXT_PUBLIC_SUPABASE_URL not found in .env", << >>)
ERR_BAD_URL == Item("cross_mark", " Invalid Supabase URL format", << >>)
ERR_NO_SQL  == Item("cross_mark", " supabase/schema.sql not found", << >>)
ErrException(e) == Item("cross_mark", " Error: {e}", << e >>)
SEPARATOR   == Item("", "box-drawing horizontal * 60", << >>)
SqlItem(text) == Item("", "{sql}", << text >>)
KEY_FOUND   == Item("check_mark", " Service role key found", << >>)
KEY_MISSING == Item("warning", "  SUPABASE_SERVICE_ROLE_KEY not found in .env", << >>)
OAUTH_HEAD  == Item("", "\n:locked_with_key: OAuth Provider Configuration:", << >>)
FINAL       == Item("", "\n:sparkles: Setup instructions displayed above!", << >>)

RefItems(ref, url) ==
    << Item("clipboard", " Project Reference: {project_ref}", << ref >>),
       Item("clipboard", " Supabase URL: {supabase_url}\n", << url >>) >>

\* Lines 72-83.
FoundBlock(ref) ==
    << KEY_FOUND,
       Item("", "\n:warning:  Note: Supabase JS/Python clients cannot execute raw SQL directly.", << >>),
       Item("", "   You have two options:\n", << >>),
       Item("", "   Option 1: Use Supabase Dashboard (Recommended)", << >>),
       Item("", "   1. Go to: https://supabase.com/dashboard/project/{project_ref}/sql/new", << ref >>),
       Item("", "   2. Copy and paste the SQL below", << >>),
       Item("", "   3. Click \"Run\"\n", << >>),
       Item("", "   Option 2: Use Supabase CLI", << >>),
       Item("", "   1. Install: npm install -g supabase", << >>),
       Item("", "   2. Login: supabase login", << >>),
       Item("", "   3. Link: supabase link --project-ref {project_ref}", << ref >>),
       Item("", "   4. Push: supabase db push\n", << >>) >>

\* Lines 85-88.
MissingBlock ==
    << KEY_MISSING,
       Item("", "   Get it from: Settings > API > service_role key\n", << >>),
       Item("", "   Then add to .env:", << >>),
       Item("", "   SUPABASE_SERVICE_ROLE_KEY=your_key_here\n", << >>) >>

\* Lines 90-93.
SchemaBlock(text) ==
    << Item("clipboard", " SQL Schema to Execute:", << >>),
       SEPARATOR, SqlItem(text), SEPARATOR >>

CallbackItem1(cb) == Item("", "   {callback_url}\n", << cb >>)
CallbackItem2(cb) == Item("", "   - Set redirect URL to: {callback_url}", << cb >>)

\* Lines 97-113.
OAuthBlock(ref, cb) ==
    << OAUTH_HEAD,
       SEPARATOR,
       Item("", "   Configure at: https://supabase.com/dashboard/project/{project_ref}/auth/providers\n", << ref >>),
       Item("", "   Required redirect URL for ALL providers:", << >>),
       CallbackItem1(cb),
       Item("", "   Providers to configure:", << >>),
       Item("", "   1. GitHub", << >>),
       Item("", "   2. Google", << >>),
       Item("", "   3. Facebook", << >>),
       Item("", "   4. Twitter (X)", << >>),
       Item("", "   5. Apple\n", << >>),
       Item("", "   For each provider:", << >>),
       Item("", "   - Enable the provider", << >>),
       Item("", "   - Add Client ID and Client Secret", << >>),
       CallbackItem2(cb),
       Item("", "   - Save configuration", << >>),
       SEPARATOR >>

\* Lines 115-116.
FinalBlock ==
    << FINAL,
       Item("", "   Once SQL is executed and OAuth is configured, restart the app.", << >>) >>

----------------------------------------------------------------------------
(* The files the run may find. *)

SeqsUpTo(A, n) == UNION {[1..k -> A] : k \in 0..n}

GOOD_URL == HTTPS \o << "a", "b" >> \o HOST_SUFFIX

UrlPrefixes == { << >>, << "x" >>, HTTPS \o << "a", "." >> }
UrlSchemes  == { HTTPS, << "h","t","t","p",":","/","/" >> }
UrlLabels   == SeqsUpTo({"a", "/", "."}, MaxRefLen)
UrlSuffixes == { HOST_SUFFIX, << ".","s","u","p","a","b","a","s","e",".","i","o" >> }
UrlTails    == { << >>, << "m" >>, << ".","e","v","i","l",".","o","r","g" >>,
                 REST_V1, REST_V1 \o << "/", "x" >>,
                 << "/","r","e","s","t" >> \o REST_V1 \o << "/","v","1" >> }

Urls == { p \o s \o l \o h \o t :
            p \in UrlPrefixes, s \in UrlSchemes, l \in UrlLabels,
            h \in UrlSuffixes, t \in UrlTails }

EnvValues == { << >>, GOOD_URL, << "k", "=", "v", " " >> }

EnvLines ==
    { << >>, << " ", "#" >> \o URL_KEY \o << "=" >> \o GOOD_URL, URL_KEY,
      ROLE_KEY \o << "=" >>, ROLE_KEY \o << "=", "v" >> }
    \cup { URL_KEY \o s \o v : s \in { << "=" >>, << " ", "=", " " >> },
                               v \in EnvValues }

EnvFiles ==
    { << URL_KEY \o << "=" >> \o u >> : u \in Urls } \cup SeqsUpTo(EnvLines, MaxLines)

SchemaFiles == SeqsUpTo({"s", "\r", "\n"}, MaxSqlLen)

----------------------------------------------------------------------------
(* main() *)

Init ==
    /\ pc = "banner"
    /\ trace = << >>
    /\ envState = "unread"
    /\ envFile = << >>
    /\ env = EmptyEnv
    /\ supabase_url = None
    /\ service_role_key = None
    /\ project_ref = None
    /\ schemaState = "unread"
    /\ schemaFile = << >>
    /\ sql = << >>
    /\ exc = None
    /\ stdout = << >>
    /\ stderr = << >>
    /\ exit_code = None

\* sys.exit(code): SystemExit is no Exception, the except clause lets it pass.
Exit(code) ==
    /\ pc' = "exited"
    /\ exit_code' = Some(code)

\* Line 42.
Banner ==
    /\ pc = "banner"
    /\ trace' = Append(trace, "banner")
    /\ stdout' = Append(stdout, BANNER)
    /\ pc' = "load_env"
    /\ UNCHANGED <<envState, envFile, env, supabase_url, service_role_key,
                   project_ref, schemaState, schemaFile, sql, exc, stderr, exit_code>>

\* Lines 44-46, with load_env (lines 19-33).
LoadEnv ==
    /\ pc = "load_env"
    /\ trace' = Append(trace, "load_env")
    /\ \E st \in {"absent", "unreadable", "ok"} :
         /\ envState' = st
         /\ CASE st = "absent" ->
                   /\ exc' = Some(ENV_NOT_FOUND)
                   /\ pc' = "except"
                   /\ UNCHANGED <<envFile, env, supabase_url, service_role_key>>
              [] st = "unreadable" ->
                   /\ exc' = Some(OS_ERROR)
                   /\ pc' = "except"
                   /\ UNCHANGED <<envFile, env, supabase_url, service_role_key>>
              [] st = "ok" ->
                   \E f \in EnvFiles :
                      /\ envFile' = f
                      /\ env' = load_env(f)
                      /\ supabase_url' = Get(load_env(f), URL_KEY)
                      /\ service_role_key' = Get(load_env(f), ROLE_KEY)
                      /\ pc' = "check_url"
                      /\ UNCHANGED exc
    /\ UNCHANGED <<project_ref, schemaState, schemaFile, sql, stdout, stderr, exit_code>>

\* Lines 48-50.
CheckUrl ==
    /\ pc = "check_url"
    /\ trace' = Append(trace, "check_url")
    /\ IF ~Truthy(supabase_url)
       THEN /\ stdout' = Append(stdout, ERR_NO_URL)
            /\ Exit(1)
       ELSE /\ pc' = "extract"
            /\ UNCHANGED <<stdout, exit_code>>
    /\ UNCHANGED <<envState, envFile, env, supabase_url, service_role_key,
                   project_ref, schemaState, schemaFile, sql, exc, stderr>>

\* (mutant) lines 52-55 without the sys.exit(1).
ExtractRef_noexit ==
    /\ pc = "extract"
    /\ trace' = Append(trace, "extract")
    /\ project_ref' = extract_project_ref(supabase_url[1])
    /\ stdout' = IF ~Truthy(project_ref') THEN Append(stdout, ERR_BAD_URL) ELSE stdout
    /\ pc' = "print_ref"
    /\ UNCHANGED <<envState, envFile, env, supabase_url, service_role_key,
                   schemaState, schemaFile, sql, exc, stderr, exit_code>>

\* Lines 52-55.
ExtractRef ==
    /\ pc = "extract"
    /\ trace' = Append(trace, "extract")
    /\ project_ref' = extract_project_ref(supabase_url[1])
    /\ IF ~Truthy(project_ref')
       THEN /\ stdout' = Append(stdout, ERR_BAD_URL)
            /\ Exit(1)
       ELSE /\ pc' = "print_ref"
            /\ UNCHANGED <<stdout, exit_code>>
    /\ UNCHANGED <<envState, envFile, env, supabase_url, service_role_key,
                   schemaState, schemaFile, sql, exc, stderr>>

\* Lines 57-58.
PrintRef ==
    /\ pc = "print_ref"
    /\ trace' = Append(trace, "print_ref")
    /\ stdout' = stdout \o RefItems(project_ref[1], supabase_url[1])
    /\ pc' = "schema"
    /\ UNCHANGED <<envState, envFile, env, supabase_url, service_role_key,
                   project_ref, schemaState, schemaFile, sql, exc, stderr, exit_code>>

\* Lines 61-66.
ReadSchema ==
    /\ pc = "schema"
    /\ trace' = Append(trace, "schema")
    /\ \E st \in {"absent", "unreadable", "ok"} :
         /\ schemaState' = st
         /\ CASE st = "absent" ->
                   /\ stdout' = Append(stdout, ERR_NO_SQL)
                   /\ Exit(1)
                   /\ UNCHANGED <<schemaFile, sql, exc>>
              [] st = "unreadable" ->
                   /\ exc' = Some(OS_ERROR)
                   /\ pc' = "except"
                   /\ UNCHANGED <<schemaFile, sql, stdout, exit_code>>
              [] st = "ok" ->
                   \E f \in SchemaFiles :
                      /\ schemaFile' = f
                      /\ sql' = read_text(f)
                      /\ pc' = "guidance"
                      /\ UNCHANGED <<exc, stdout, exit_code>>
    /\ UNCHANGED <<envState, envFile, env, supabase_url, service_role_key,
                   project_ref, stderr>>

\* (mutant) lines 68-88 with 'if service_role_key is not None'.
PrintGuidance_isNotNone ==
    /\ pc = "guidance"
    /\ trace' = Append(trace, "guidance")
    /\ stdout' = stdout
                 \o << Item("memo", " SQL Schema Execution:", << >>), SEPARATOR >>
                 \o (IF service_role_key # None
                     THEN FoundBlock(project_ref[1])
                     ELSE MissingBlock)
    /\ pc' = "print_sql"
    /\ UNCHANGED <<envState, envFile, env, supabase_url, service_role_key,
                   project_ref, schemaState, schemaFile, sql, exc, stderr, exit_code>>

\* Lines 68-88.
PrintGuidance ==
    /\ pc = "guidance"
    /\ trace' = Append(trace, "guidance")
    /\ stdout' = stdout
                 \o << Item("memo", " SQL Schema Execution:", << >>), SEPARATOR >>
                 \o (IF Truthy(service_role_key)
                     THEN FoundBlock(project_ref[1])
                     ELSE MissingBlock)
    /\ pc' = "print_sql"
    /\ UNCHANGED <<envState, envFile, env, supabase_url, service_role_key,
                   project_ref, schemaState, schemaFile, sql, exc, stderr, exit_code>>

\* Lines 90-93.
PrintSchema ==
    /\ pc = "print_sql"
    /\ trace' = Append(trace, "print_sql")
    /\ stdout' = stdout \o SchemaBlock(sql)
    /\ pc' = "oauth"
    /\ UNCHANGED <<envState, envFile, env, supabase_url, service_role_key,
                   project_ref, schemaState, schemaFile, sql, exc, stderr, exit_code>>

\* Lines 95-113.
PrintOAuth ==
    /\ pc = "oauth"
    /\ trace' = Append(trace, "oauth")
    /\ stdout' = stdout \o OAuthBlock(project_ref[1], callback_url(supabase_url[1]))
    /\ pc' = "final"
    /\ UNCHANGED <<envState, envFile, env, supabase_url, service_role_key,
                   project_ref, schemaState, schemaFile, sql, exc, stderr, exit_code>>

\* Lines 115-116, and the return of main(): the interpreter exits with status 0.
PrintFinal ==
    /\ pc = "final"
    /\ trace' = Append(trace, "final")
    /\ stdout' = stdout \o FinalBlock
    /\ Exit(0)
    /\ UNCHANGED <<envState, envFile, env, supabase_url, service_role_key,
                   project_ref, schemaState, schemaFile, sql, exc, stderr>>

\* (mutant) lines 118-120 without the sys.exit(1): main() returns.
Except_noexit ==
    /\ pc = "except"
    /\ trace' = Append(trace, "except")
    /\ stdout' = Append(stdout, ErrException(exc[1]))
    /\ Exit(0)
    /\ UNCHANGED <<envState, envFile, env, supabase_url, service_role_key,
                   project_ref, schemaState, schemaFile, sql, exc, stderr>>

\* (mutant) lines 118-120 with print(..., file=sys.stderr).
Except_stderr ==
    /\ pc = "except"
    /\ trace' = Append(trace, "except")
    /\ stderr' = Append(stderr, ErrException(exc[1]))
    /\ Exit(1)
    /\ UNCHANGED <<envState, envFile, env, supabase_url, service_role_key,
                   project_ref, schemaState, schemaFile, sql, exc, stdout>>

\* Lines 118-120.
Except ==
    /\ pc = "except"
    /\ trace' = Append(trace, "except")
    /\ stdout' = Append(stdout, ErrException(exc[1]))
    /\ Exit(1)
    /\ UNCHANGED <<envState, envFile, env, supabase_url, service_role_key,
                   project_ref, schemaState, schemaFile, sql, exc, stderr>>

Next ==
    \/ Banner
    \/ LoadEnv
    \/ CheckUrl
    \/ ExtractRef
    \/ PrintRef
    \/ ReadSchema
    \/ PrintGuidance
    \/ PrintSchema
    \/ PrintOAuth
    \/ PrintFinal
    \/ Except

Spec == Init /\ [][Next]_vars

----------------------------------------------------------------------------
(* Vocabulary of the properties. *)

Acted(step) == \E i \in 1..Len(trace) : trace[i] = step
JustDid(step) == trace # << >> /\ trace[Len(trace)] = step
Printed(item) == \E i \in 1..Len(stdout) : stdout[i] = item
IsError(item) == item.icon = "cross_mark"
ErrorsPrinted == {i \in 1..Len(stdout) : IsError(stdout[i])}
SqlPrinted == {i \in 1..Len(stdout) : stdout[i].text = "{sql}"}
NoDot(s) == \A k \in 1..Len(s) : s[k] # "."
endswith(s, p) == MatchAt(s, Len(s) - Len(p) + 1, p)
removesuffix(s, p) == IF endswith(s, p) THEN SubSeq(s, 1, Len(s) - Len(p)) ELSE s

\* w is exactly https://{label}.supabase.co, the label non-empty and without '.'.
Shaped(w) ==
    /\ Len(w) > Len(HTTPS) + Len(HOST_SUFFIX)
    /\ startswith(w, HTTPS)
    /\ endswith(w, HOST_SUFFIX)
    /\ NoDot(SubSeq(w, Len(HTTPS) + 1, Len(w) - Len(HOST_SUFFIX)))
LabelOf(w) == SubSeq(w, Len(HTTPS) + 1, Len(w) - Len(HOST_SUFFIX))
\* The places (first, last) of u that hold a text of that shape.
ShapedAt(u) ==
    {p \in (1..Len(u)) \X (1..Len(u)) :
        MatchAt(u, p[1], HTTPS) /\ p[2] >= p[1] /\ Shaped(SubSeq(u, p[1], p[2]))}

\* The host of an https URL: what follows the scheme, up to the first '/'.
HostOf(u) ==
    LET rest == SubSeq(u, Len(HTTPS) + 1, Len(u))
        i    == find(rest, << "/" >>)
    IN  IF i = 0 THEN rest ELSE SubSeq(rest, 1, i - 1)

----------------------------------------------------------------------------
(* C1 *)

----------------------------------------------------------------------------
(* C2 *)

\* C2: a configured https URL whose host does not end with .supabase.co yields
\* no identifier, and the run ends with status 1 without printing a project
\* reference, the schema or the OAuth instructions.
C2_ForeignHostRejected ==
    ( /\ Acted("extract")
      /\ startswith(supabase_url[1], HTTPS)
      /\ ~endswith(HostOf(supabase_url[1]), HOST_SUFFIX) ) =>
        /\ project_ref = None
        /\ pc = "exited"
        /\ exit_code = Some(1)
        /\ ~Acted("print_ref")
        /\ SqlPrinted = {}
        /\ ~Printed(OAUTH_HEAD)

----------------------------------------------------------------------------
(* C3 *)

UrlMissing == URL_KEY \notin DOMAIN env \/ env[URL_KEY] = << >>

\* C3: when the .env file exists and was read, and NEXT_PUBLIC_SUPABASE_URL is
\* absent from it or has an empty value, the run ends with status 1 right after
\* printing the message that names NEXT_PUBLIC_SUPABASE_URL: it neither extracts
\* a project reference nor looks at the schema file.
C3_MissingUrlKeyExits ==
    (envState = "ok" /\ UrlMissing) =>
        /\ ~Acted("extract")
        /\ ~Acted("schema")
        /\ project_ref = None
        /\ schemaState = "unread"
        /\ pc = "exited" =>
             /\ exit_code = Some(1)
             /\ stdout = << BANNER, ERR_NO_URL >>
             /\ trace = << "banner", "load_env", "check_url" >>

\* C3's case: the key is present with an empty value and the run has ended.
C3_Witness ==
    /\ envState = "ok"
    /\ URL_KEY \in DOMAIN env
    /\ env[URL_KEY] = << >>
    /\ pc = "exited"

----------------------------------------------------------------------------
(* C4 *)

\* The error kind the inputs of the run call for, in the order main() meets them.
ErrorKind ==
    IF envState = "absent" THEN "missing_env"
    ELSE IF envState = "unreadable" THEN "other"
    ELSE IF ~Truthy(Get(load_env(envFile), URL_KEY)) THEN "missing_key"
    ELSE IF extract_project_ref(Get(load_env(envFile), URL_KEY)[1]) = None
         THEN "malformed_url"
    ELSE IF schemaState = "absent" THEN "missing_schema"
    ELSE IF schemaState = "unreadable" THEN "other"
    ELSE "none"

ErrorMessage(kind) ==
    CASE kind = "missing_env"    -> ErrException(ENV_NOT_FOUND)
      [] kind = "missing_key"    -> ERR_NO_URL
      [] kind = "malformed_url"  -> ERR_BAD_URL
      [] kind = "missing_schema" -> ERR_NO_SQL
      [] kind = "other"          -> ErrException(exc[1])

\* C4: a run ends with exit code 0 or 1: 1 exactly when one of the five error
\* kinds occurred, and then the last thing printed is that kind's message, the
\* only one starting with the cross mark; 0 exactly when none occurred, and then
\* no such message was printed.  A run that has not ended has no exit code.
C4_ExitCodeTellsError ==
    /\ pc # "exited" => exit_code = None
    /\ pc = "exited" =>
         /\ exit_code \in {Some(0), Some(1)}
         /\ (exit_code = Some(1)) <=> (ErrorKind # "none")
         /\ ErrorKind # "none" =>
              /\ ErrorsPrinted = {Len(stdout)}
              /\ stdout[Len(stdout)] = ErrorMessage(ErrorKind)
         /\ ErrorKind = "none" => ErrorsPrinted = {}

\* C4's case: a run ended by an exception other than the four checked errors.
C4_Witness ==
    /\ pc = "exited"
    /\ ErrorKind = "other"
    /\ exit_code = Some(1)

----------------------------------------------------------------------------
(* C5 *)

\* C5 as stated: error messages go to standard error, never to standard output.
C5_ErrorsNotOnStdout == ErrorsPrinted = {}

\* C5 as amended: everything the run writes, the error messages included, is
\* written to standard output by print(); nothing is written to standard error.
\* A run that ends with status 1 has its error message last on standard output,
\* and the instructions and the schema are on standard output.
C5_EverythingOnStdout ==
    /\ stderr = << >>
    /\ exit_code = Some(1) => (stdout # << >> /\ IsError(stdout[Len(stdout)]))
    /\ exit_code = Some(0) =>
         (Printed(SqlItem(sql)) /\ Printed(OAUTH_HEAD) /\ Printed(FINAL))

\* C5's case: a failed run, its message on standard output.
C5_Witness ==
    /\ exit_code = Some(1)
    /\ Printed(ERR_NO_URL)
    /\ stderr = << >>

----------------------------------------------------------------------------
(* C6 *)

RoleKeyHasValue == ROLE_KEY \in DOMAIN env /\ env[ROLE_KEY] # << >>
Count(item) == Cardinality({i \in 1..Len(stdout) : stdout[i] = item})

\* C6: once the schema-execution section is printed, exactly one guidance block
\* is in the output: the 'Service role key found' block if and only if
\* SUPABASE_SERVICE_ROLE_KEY has a (non-empty) value in the mapping, and
\* otherwise the 'SUPABASE_SERVICE_ROLE_KEY not found' block.  Before that
\* section neither is printed.
C6_ExactlyOneGuidanceBlock ==
    /\ Acted("guidance") =>
         /\ Count(KEY_FOUND) + Count(KEY_MISSING) = 1
         /\ Printed(KEY_FOUND) <=> RoleKeyHasValue
         /\ Printed(KEY_MISSING) <=> ~RoleKeyHasValue
    /\ ~Acted("guidance") => Count(KEY_FOUND) + Count(KEY_MISSING) = 0

\* C6's case: the key is in the mapping with an empty value, and the guidance
\* was printed.
C6_Witness ==
    /\ Acted("guidance")
    /\ ROLE_KEY \in DOMAIN env
    /\ env[ROLE_KEY] = << >>
    /\ Printed(KEY_MISSING)

----------------------------------------------------------------------------
(* C7 *)

\* C7: the callback URL printed, twice, in the OAuth section is the configured
\* URL without a trailing /rest/v1, if it ends with one, followed by
\* /auth/v1/callback; a /rest/v1 elsewhere in the URL is kept.
C7_CallbackStripsOnlyTrailingRest ==
    Acted("oauth") =>
        LET cb == removesuffix(supabase_url[1], REST_V1) \o AUTH_CALLBACK
        IN  Printed(CallbackItem1(cb)) /\ Printed(CallbackItem2(cb))

----------------------------------------------------------------------------
(* C8 *)

\* The first '=' of a line.
FirstEq(l) == CHOOSE k \in 1..Len(l) : l[k] = "=" /\ \A j \in 1..(k - 1) : l[j] # "="
\* A line of the form KEY=VALUE: not blank, not a comment, with an '='.
IsAssignment(raw) ==
    LET l == strip(raw)
    IN  l # << >> /\ l[1] # "#" /\ \E k \in 1..Len(l) : l[k] = "="
KeyOf(raw) == LET l == strip(raw) IN strip(SubSeq(l, 1, FirstEq(l) - 1))
ValueOf(raw) == LET l == strip(raw) IN strip(SubSeq(l, FirstEq(l) + 1, Len(l)))
Assignments == {i \in 1..Len(envFile) : IsAssignment(envFile[i])}
\* The last line that assigns the key line i assigns.
LastOf(i) ==
    CHOOSE j \in Assignments :
        /\ KeyOf(envFile[j]) = KeyOf(envFile[i])
        /\ \A k \in Assignments : KeyOf(envFile[k]) = KeyOf(envFile[i]) => k <= j

\* C8 as stated: the mapping has one entry for each line of the form KEY=VALUE
\* and no others, and the value stored for KEY is the VALUE of that line (key
\* and value taken without their surrounding whitespace).
C8_OneEntryPerLine ==
    (JustDid("load_env") /\ envState = "ok") =>
        /\ Cardinality(DOMAIN env) = Cardinality(Assignments)
        /\ \A i \in Assignments :
              /\ KeyOf(envFile[i]) \in DOMAIN env
              /\ env[KeyOf(envFile[i])] = ValueOf(envFile[i])

\* C8 as amended: the mapping has one entry for each distinct KEY of the lines
\* of the form KEY=VALUE and no others; blank lines, comment lines and lines
\* without '=' contribute nothing; a line is split on its first '=' only; key
\* and value are stored without surrounding whitespace; the value stored for a
\* KEY is that of the last line that gives it.  Without a .env file the run
\* ends with an error and no mapping.
C8_OneEntryPerKeyLastWins ==
    /\ (Acted("load_env") /\ envState = "ok") =>
         /\ DOMAIN env = {KeyOf(envFile[i]) : i \in Assignments}
         /\ \A i \in Assignments :
               env[KeyOf(envFile[i])] = ValueOf(envFile[LastOf(i)])
    /\ envState = "absent" =>
         /\ env = EmptyEnv
         /\ pc \in {"except", "exited"}
         /\ pc = "exited" =>
               (exit_code = Some(1) /\ Printed(ErrException(ENV_NOT_FOUND)))

\* C8's case: two lines give the same key different values, one of them with
\* an '=' inside, and the mapping was built.
C8_Witness ==
    /\ JustDid("load_env")
    /\ envState = "ok"
    /\ \E i, j \in Assignments :
          /\ i < j
          /\ KeyOf(envFile[i]) = KeyOf(envFile[j])
          /\ ValueOf(envFile[i]) # ValueOf(envFile[j])
          /\ \E k \in 1..Len(ValueOf(envFile[j])) : ValueOf(envFile[j])[k] = "="

----------------------------------------------------------------------------
(* C9 *)

HasCR(s) == \E k \in 1..Len(s) : s[k] = "\r"

\* C9 as stated: the schema text printed between the two separator lines is,
\* character for character, the contents of supabase/schema.sql.
C9_SchemaEchoedVerbatim ==
    Acted("print_sql") =>
        \A i \in SqlPrinted : stdout[i].args[1] = schemaFile

\* C9 as amended: the schema text is printed once, between the two separator
\* lines, and is the contents of supabase/schema.sql as text-mode reading gives
\* them: every "\r\n" and every lone "\r" of the file is printed as "\n", and
\* the text is the file's, character for character, when the file has no "\r".
\* Without a schema file the run ends with status 1 and prints no schema text.
C9_SchemaEchoedWithNewlinesTranslated ==
    /\ Acted("print_sql") =>
         /\ Cardinality(SqlPrinted) = 1
         /\ \A i \in SqlPrinted :
               /\ i > 1 /\ stdout[i - 1] = SEPARATOR
               /\ i < Len(stdout) /\ stdout[i + 1] = SEPARATOR
               /\ stdout[i].args[1] = universal_newlines(schemaFile)
               /\ ~HasCR(stdout[i].args[1])
               /\ ~HasCR(schemaFile) => stdout[i].args[1] = schemaFile
    /\ ~Acted("print_sql") => SqlPrinted = {}
    /\ schemaState = "absent" =>
         (pc = "exited" /\ exit_code = Some(1) /\ SqlPrinted = {})

\* C9's case: a schema file with a carriage return was printed.
C9_Witness ==
    /\ Acted("print_sql")
    /\ HasCR(schemaFile)
    /\ \E i \in SqlPrinted : stdout[i].args[1] # schemaFile

----------------------------------------------------------------------------
(* C10 *)

ORDER == << "banner", "load_env", "check_url", "extract", "print_ref", "schema",
            "guidance", "print_sql", "oauth", "final" >>

IsPrefix(a, b) == Len(a) <= Len(b) /\ SubSeq(b, 1, Len(a)) = a

\* What a run that succeeds has printed.
FullOutput ==
    << BANNER >>
    \o RefItems(project_ref[1], supabase_url[1])
    \o << Item("memo", " SQL Schema Execution:", << >>), SEPARATOR >>
    \o (IF RoleKeyHasValue THEN FoundBlock(project_ref[1]) ELSE MissingBlock)
    \o SchemaBlock(sql)
    \o OAuthBlock(project_ref[1], callback_url(supabase_url[1]))
    \o FinalBlock

\* C10: main() takes its steps once each, in the fixed order, up to the first
\* failing check, which ends the run: an error message is the last thing
\* printed, by a run that ended with status 1.  A run that ended with status 1
\* has printed neither the schema text, nor the OAuth section, nor the final
\* line; the final line is printed if and only if the run ended with status 0,
\* and then the whole output is the blocks in their order.
C10_StepsInOrderFirstFailureEnds ==
    /\ \/ IsPrefix(trace, ORDER)
       \/ /\ JustDid("except")
          /\ IsPrefix(SubSeq(trace, 1, Len(trace) - 1), ORDER)
    /\ \A i \in ErrorsPrinted :
          i = Len(stdout) /\ pc = "exited" /\ exit_code = Some(1)
    /\ exit_code = Some(1) =>
          (SqlPrinted = {} /\ ~Printed(OAUTH_HEAD) /\ ~Printed(FINAL))
    /\ Printed(FINAL) <=> exit_code = Some(0)
    /\ exit_code = Some(0) => (trace = ORDER /\ stdout = FullOutput)

\* C10's case: a run that failed at its last check, the schema file.
C10_Witness ==
    /\ pc = "exited"
    /\ exit_code = Some(1)
    /\ Acted("schema")
    /\ Acted("print_ref")

============================================================================
